---- MODULE Spec2Model ----
(***************************************************************************)
(* graph.py: a Streamlit script.  Every user interaction of a browser      *)
(* session re-executes the script top to bottom ("script run"): the        *)
(* module-level probe (lines 73-77), then the submit handler when the form *)
(* was submitted (151-185), then the dashboard tab (188-218) and the       *)
(* detail tab (221-240).  Sessions run in threads of one process and share *)
(* the st.cache_resource / st.cache_data caches and the MySQL database.    *)
(***************************************************************************)
EXTENDS Integers, Sequences, FiniteSets, TLC

\* ---------------------------------------------------------------- bounds
MaxRows == 2      \* rows of a table in the submit form (SpecSubmit)
MaxRuns == 2      \* script runs in one behaviour
MaxFaults == 1    \* driver faults injected in one behaviour

\* ------------------------------------------------------- program constants
TimeMin == 0
TimeMax == 60
TempMin == -20
TempMax == 150
IdLen == 5

ACTIVITY_ID == "2025-heat-curve-01"

Sessions == {1, 2}

\* A cell of the data editor is <<n>> (a number) or Null (None / NaN, an empty cell).
\* In the same way an absent cache entry, result or argument is <<>>, a present one <<v>>.
Null == <<>>
None == "None"

\* ------------------------------------------------------------ input domains
Digits == {"0", "1", "2", "3", "4", "5", "6", "7", "8", "9"}

S10130 == <<"1", "0", "1", "3", "0">>
S10201 == <<"1", "0", "2", "0", "1">>
S99999 == <<"9", "9", "9", "9", "9">>
Sabc12 == <<"a", "b", "c", "1", "2">>
S1013 == <<"1", "0", "1", "3">>

\* what can be typed in the text_input (max_chars=5)
Sids == {S10130, S10201, S99999, Sabc12, S1013, <<>>}

\* the external roster table `students` (read-only here)
students == {[id |-> S10130, name |-> "kim"], [id |-> S10201, name |-> "lee"]}

Num(S) == {<<n>> : n \in S}
Times == {Null} \cup Num({TimeMin - 1, TimeMin, TimeMax, TimeMax + 1})
Temps == {Null} \cup Num({TempMin - 1, TempMin, TempMax, TempMax + 1})
Rows == Times \X Temps

TablesUpTo(n) == UNION {[1..k -> Rows] : k \in 0..n}
\* every table the data editor (num_rows="dynamic") can hold, up to MaxRows
Tables == TablesUpTo(MaxRows)
\* the tables typed in the concurrent specification: empty or one row
ViewTimes == {Null} \cup Num({TimeMin, TimeMax + 1})
ViewTemps == Num({TempMax})
ViewTables == {<<>>} \cup {<<r>> : r \in ViewTimes \X ViewTemps}
ViewSids == {S10130, S10201, S99999, Sabc12}

VARIABLES
  DB_CONF,     \* get_db_conf(): cached for the process ("conf" or None)
  graph1,      \* the submissions table: a set of rows
  clock,       \* the database's CURRENT_TIMESTAMP
  cache,       \* st.cache_data entry of load_all(ACTIVITY_ID): NoEntry or a value
  pc,          \* per session: position of its script run
  trigger,     \* per session: what started its current (or last) script run
  DB_STATUS,   \* per session: DB_STATUS of its current (or last) script run
  outcome,     \* per session: the message the submit handler showed
  steps,       \* per session: the checks and statements the submit handler performed
  conns,       \* per session: connections run_sql opened during the script run
  loc,         \* per session: value load_all computed on a cache miss, not yet stored
  data,        \* per session: what the last load_all call of the run returned
  probes,      \* connections attempted by _probe_db since the process started
  nruns,       \* script runs started since the process started
  unreleased,  \* connections run_sql opened and returned without closing
  nfaults,     \* driver faults injected so far
  lastOk,      \* per student id: payload of the latest successful submit
  arg          \* SpecSubmit: the form contents the handler is applied to

vars == <<DB_CONF, graph1, clock, cache, pc, trigger, DB_STATUS, outcome, steps,
          conns, loc, data, probes, nruns, unreleased, nfaults, lastOk, arg>>

\* ------------------------------------------------------------- validation
\* re.fullmatch(r"\d{5}", sid or "")
re_fullmatch_d5(sid) == Len(sid) = IdLen /\ \A i \in 1..Len(sid) : sid[i] \in Digits

\* df.isnull().any().any()
isnull_any(df) == \E i \in 1..Len(df) : df[i][1] = Null \/ df[i][2] = Null

\* Series.between(lo, hi): inclusive on both ends, False for a missing value
between(x, lo, hi) == x # Null /\ lo <= x[1] /\ x[1] <= hi

\* (df[time].between(0,60)).all() and (df[temp].between(-20,150)).all()
in_range_all(df) ==
  /\ \A i \in 1..Len(df) : between(df[i][1], TimeMin, TimeMax)
  /\ \A i \in 1..Len(df) : between(df[i][2], TempMin, TempMax)

\* mutant: the range check placed before the missing-cell check
ValidateRangeFirst(sid, df) ==
  IF ~re_fullmatch_d5(sid) THEN [res |-> "INVALID_ID", checks |-> <<"id">>]
  ELSE IF ~in_range_all(df) THEN [res |-> "OUT_OF_RANGE", checks |-> <<"id", "range">>]
  ELSE IF isnull_any(df)
       THEN [res |-> "INCOMPLETE_TABLE", checks |-> <<"id", "range", "null">>]
  ELSE [res |-> "OK", checks |-> <<"id", "range", "null">>]

\* lines 153-158: three checks, each followed by st.stop() on failure
Validate(sid, df) ==
  IF ~re_fullmatch_d5(sid) THEN [res |-> "INVALID_ID", checks |-> <<"id">>]
  ELSE IF isnull_any(df) THEN [res |-> "INCOMPLETE_TABLE", checks |-> <<"id", "null">>]
  ELSE IF ~in_range_all(df)
       THEN [res |-> "OUT_OF_RANGE", checks |-> <<"id", "null", "range">>]
  ELSE [res |-> "OK", checks |-> <<"id", "null", "range">>]

\* ------------------------------------------------------- sort and payload
Perms(n) == {p \in [1..n -> 1..n] : \A i, j \in 1..n : i # j => p[i] # p[j]}

\* missing times sort last (na_position="last")
TimeLeq(a, b) == b = Null \/ (a # Null /\ a[1] <= b[1])
IsTimeSorted(df) == \A i \in 1..Len(df) - 1 : TimeLeq(df[i][1], df[i + 1][1])

\* mutant: the table is stored in the order it was typed
sort_values_unsorted(df) == {df}

\* df.sort_values(time): the default sort kind is not stable, so any time-ordered
\* arrangement of the rows is a possible result
sort_values(df) ==
  {t \in {[i \in 1..Len(df) |-> df[p[i]]] : p \in Perms(Len(df))} : IsTimeSorted(t)}

\* ordered.to_dict(orient="records")
to_dict_records(df) == [i \in 1..Len(df) |-> [time |-> df[i][1], temp |-> df[i][2]]]

\* json.dumps / json.loads: the text is kept as a tagged value
json_dumps(recs) == [json |-> recs]
json_loads(text) == text.json

\* pd.DataFrame(records)
DataFrame(recs) == [i \in 1..Len(recs) |-> <<recs[i].time, recs[i].temp>>]

\* ------------------------------------------------------------ DB status
\* DB_STATUS.startswith("ONLINE") (lines 83, 160, 198, 222)
startswith_ONLINE_always(status) == TRUE

startswith_ONLINE(status) == status = "ONLINE"

\* lines 59-77: what one execution of the module-level status code can yield,
\* as <<DB_STATUS, connections _probe_db attempted>>
probe_db_status(conf) ==
  IF conf # None
  THEN {<<"ONLINE", 1>>, <<"OFFLINE: error", 1>>}
  ELSE {<<"OFFLINE: secrets", 0>>}

\* ---------------------------------------------------------------- run_sql
\* the driver calls of run_sql that can raise
FaultPoints ==
  {"connect", "autocommit", "cursor", "execute", "fetchall", "cur_close", "conn_close"}

\* the faults the environment may still inject into one run_sql call
FaultChoices(used) == {F \in SUBSET FaultPoints : Cardinality(F) + used <= MaxFaults}

\* mutant: a failed statement is attempted again on a second connection
run_sql_retry(conf, status, fetch, F) ==
  IF ~(conf # None /\ startswith_ONLINE(status))
  THEN [short |-> TRUE, connects |-> 0, conn_open |-> 0, conn_closed |-> 0,
        cur_open |-> 0, cur_closed |-> 0, raised |-> FALSE, executed |-> FALSE,
        ret |-> IF fetch THEN "([], [])" ELSE "None"]
  ELSE [short |-> FALSE, connects |-> IF F = {} THEN 1 ELSE 2,
        conn_open |-> IF F = {} THEN 1 ELSE 2, conn_closed |-> IF F = {} THEN 1 ELSE 2,
        cur_open |-> 1, cur_closed |-> 1, raised |-> FALSE, executed |-> TRUE,
        ret |-> IF fetch THEN "(rows, cols)" ELSE "None"]

\* lines 81-101.  F: the driver calls that raise during this call.  The result
\* says what the call did: connections attempted / opened / closed, cursors
\* opened / closed, whether an exception reached the caller, whether the
\* statement was executed (autocommit: an executed statement is committed).
run_sql(conf, status, fetch, F) ==
  IF ~(conf # None /\ startswith_ONLINE(status))
  THEN [short |-> TRUE, connects |-> 0, conn_open |-> 0, conn_closed |-> 0,
        cur_open |-> 0, cur_closed |-> 0, raised |-> FALSE, executed |-> FALSE,
        ret |-> IF fetch THEN "([], [])" ELSE "None"]
  ELSE IF "connect" \in F
  THEN [short |-> FALSE, connects |-> 1, conn_open |-> 0, conn_closed |-> 0,
        cur_open |-> 0, cur_closed |-> 0, raised |-> TRUE, executed |-> FALSE,
        ret |-> "raise"]
  ELSE IF "autocommit" \in F \/ "cursor" \in F
  THEN \* raised before the try block: nothing closes the connection
       [short |-> FALSE, connects |-> 1, conn_open |-> 1, conn_closed |-> 0,
        cur_open |-> 0, cur_closed |-> 0, raised |-> TRUE, executed |-> FALSE,
        ret |-> "raise"]
  ELSE LET exec_ok == "execute" \notin F
           fetch_ok == ~fetch \/ "fetchall" \notin F
           \* finally: try: cur.close(); conn.close()  except Exception: pass
           cur_ok == "cur_close" \notin F
           conn_ok == cur_ok /\ "conn_close" \notin F
       IN [short |-> FALSE, connects |-> 1, conn_open |-> 1,
           conn_closed |-> IF conn_ok THEN 1 ELSE 0,
           cur_open |-> 1, cur_closed |-> IF cur_ok THEN 1 ELSE 0,
           raised |-> ~(exec_ok /\ fetch_ok), executed |-> exec_ok,
           ret |-> IF ~(exec_ok /\ fetch_ok) THEN "raise"
                   ELSE IF fetch THEN "(rows, cols)" ELSE "None"]

\* ------------------------------------------------------------- statements
\* mutant: the lookup finds a row for every id
select_student_any(sid) == <<1>>

\* SELECT 1 FROM students WHERE id=%s
select_student(sid) == IF \E st \in students : st.id = sid THEN <<1>> ELSE <<>>

\* mutant: a plain INSERT into a table without the unique key
upsert_insert_only(rows, activity, sid, payload, now) ==
  rows \cup {[activity_id |-> activity, id |-> sid, data_json |-> payload,
              submitted_at |-> now]}

\* INSERT INTO graph1(activity_id, id, data_json) VALUES (...)
\* ON DUPLICATE KEY UPDATE data_json=VALUES(data_json), submitted_at=CURRENT_TIMESTAMP
upsert(rows, activity, sid, payload, now) ==
  LET hit == {r \in rows : r.activity_id = activity /\ r.id = sid}
  IN IF hit # {}
     THEN (rows \ hit) \cup
          {[r EXCEPT !.data_json = payload, !.submitted_at = now] : r \in hit}
     ELSE rows \cup {[activity_id |-> activity, id |-> sid, data_json |-> payload,
                      submitted_at |-> now]}

DigitVal(c) == CHOOSE n \in 0..9 : <<"0", "1", "2", "3", "4", "5", "6", "7", "8", "9">>[n + 1] = c

RECURSIVE IdKey(_)
IdKey(sid) == IF sid = <<>> THEN 0
              ELSE 10 * IdKey(SubSeq(sid, 1, Len(sid) - 1)) + DigitVal(sid[Len(sid)])

\* SELECT g1.id, s.name, g1.submitted_at, g1.data_json FROM graph1 g1 JOIN students s
\* ON s.id = g1.id WHERE g1.activity_id=%s ORDER BY g1.id ASC
select_join(rows, activity) ==
  LET joined == {[id |-> r.id, name |-> st.name, submitted_at |-> r.submitted_at,
                  data_json |-> r.data_json] :
                   <<r, st>> \in {x \in rows \X students :
                                    x[1].id = x[2].id /\ x[1].activity_id = activity}}
      n == Cardinality(joined)
  IN CHOOSE q \in [1..n -> joined] :
       /\ \A i, j \in 1..n : i # j => q[i] # q[j]
       /\ \A i \in 1..n - 1 : IdKey(q[i].id) <= IdKey(q[i + 1].id)

\* lines 106-123: the value load_all computes from one run_sql call, <<out, err>>
load_all_value(r, rows) ==
  IF r.raised THEN <<<<>>, "error">>
  ELSE LET q == IF r.short THEN <<>> ELSE select_join(rows, ACTIVITY_ID)
       IN <<[i \in 1..Len(q) |->
              [id |-> q[i].id, name |-> q[i].name, submitted_at |-> q[i].submitted_at,
               data |-> DataFrame(json_loads(q[i].data_json))]], None>>

\* --------------------------------------------------------- submit handler
Range(q) == {q[i] : i \in 1..Len(q)}

\* lines 151-185 applied to the form contents (sid, df) in a script run whose status
\* is `status`.  F1 / F2: the faults of the lookup / the upsert call; ordered: the
\* result of sort_values.  The result names the message shown, the steps performed,
\* whether st.stop() ended the script run, and the effects on the shared state.
submit_handler(sid, df, status, F1, F2, ordered) ==
  LET v == Validate(sid, df)
      none == [outcome |-> v.res, steps |-> v.checks, stop |-> TRUE, connects |-> 0,
               leaked |-> 0, rows |-> graph1, now |-> clock, cch |-> cache,
               ok |-> lastOk]
  IN IF v.res # "OK" THEN none
     ELSE IF ~startswith_ONLINE(status)
     THEN [none EXCEPT !.outcome = "NO_DB", !.stop = FALSE]
     ELSE
       LET r1 == run_sql(DB_CONF, status, TRUE, F1)
           ok_stu == IF r1.short THEN <<>> ELSE select_student(sid)
           looked == [none EXCEPT !.steps = v.checks \o <<"lookup">>,
                                  !.connects = r1.connects,
                                  !.leaked = r1.conn_open - r1.conn_closed]
       IN IF r1.raised THEN [looked EXCEPT !.outcome = "LOOKUP_ERROR"]
          ELSE IF ok_stu = <<>>
          THEN [looked EXCEPT !.outcome = "UNKNOWN_STUDENT", !.stop = FALSE]
          ELSE
            LET payload == json_dumps(to_dict_records(ordered))
                r2 == run_sql(DB_CONF, status, FALSE, F2)
                wrote == [looked EXCEPT
                   !.stop = FALSE,
                   !.steps = looked.steps \o <<"upsert">>,
                   !.connects = r1.connects + r2.connects,
                   !.leaked = looked.leaked + r2.conn_open - r2.conn_closed,
                   !.rows = IF r2.executed
                            THEN upsert(graph1, ACTIVITY_ID, sid, payload, clock + 1)
                            ELSE graph1,
                   !.now = IF r2.executed THEN clock + 1 ELSE clock]
            IN IF r2.raised THEN [wrote EXCEPT !.outcome = "WRITE_FAILURE"]
               ELSE [wrote EXCEPT !.outcome = "SUCCESS",
                                  !.steps = wrote.steps \o <<"clear">>,
                                  !.cch = <<>>,   \* load_all.clear()
                                  !.ok = [lastOk EXCEPT ![sid] = <<payload>>]]

\* the faults that can hit the handler's call `step`: none when it is not reached
CallFaults(sid, df, status, F1, ordered, step, used) ==
  IF step \in Range(submit_handler(sid, df, status, F1, {}, ordered).steps)
  THEN FaultChoices(used)
  ELSE {{}}

\* ------------------------------------------------------------------ state
\* the process has started and no script run has happened yet
InitState ==
  /\ DB_CONF \in {"conf", None}
  /\ graph1 = {}
  /\ clock = 0
  /\ cache = <<>>
  /\ pc = [s \in Sessions |-> "idle"]
  /\ trigger = [s \in Sessions |-> "none"]
  /\ DB_STATUS = [s \in Sessions |-> "unset"]
  /\ outcome = [s \in Sessions |-> "none"]
  /\ steps = [s \in Sessions |-> <<>>]
  /\ conns = [s \in Sessions |-> 0]
  /\ loc = [s \in Sessions |-> <<>>]
  /\ data = [s \in Sessions |-> <<>>]
  /\ probes = 0
  /\ nruns = 0
  /\ unreleased = 0
  /\ nfaults = 0
  /\ lastOk = [sid \in Sids |-> <<>>]

Init == InitState /\ arg = <<>>

\* A script run of session s starts: the module-level code runs again (lines 57-79)
\* with the result pr of probe_db_status, and the run's own values are reset.
RunStart(s, trig, pr) ==
  /\ pc[s] = "idle"
  /\ nruns < MaxRuns
  /\ nruns' = nruns + 1
  /\ pr \in probe_db_status(DB_CONF)
  /\ probes' = probes + pr[2]
  /\ DB_STATUS' = [DB_STATUS EXCEPT ![s] = pr[1]]
  /\ trigger' = [trigger EXCEPT ![s] = trig]
  /\ UNCHANGED <<DB_CONF, loc, data, arg>>

\* The form of session s is submitted with (sid, df): script run with ok = True.
Submit(s, sid, df) ==
  /\ pc[s] = "idle"
  /\ \E pr \in probe_db_status(DB_CONF), ordered \in sort_values(df) :
     \E F1 \in CallFaults(sid, df, pr[1], {}, ordered, "lookup", nfaults) :
     \E F2 \in CallFaults(sid, df, pr[1], F1, ordered, "upsert", nfaults + Cardinality(F1)) :
    LET h == submit_handler(sid, df, pr[1], F1, F2, ordered)
    IN /\ RunStart(s, "submit", pr)
       /\ nfaults' = nfaults + Cardinality(F1) + Cardinality(F2)
       /\ outcome' = [outcome EXCEPT ![s] = h.outcome]
       /\ steps' = [steps EXCEPT ![s] = h.steps]
       /\ conns' = [conns EXCEPT ![s] = h.connects]
       /\ unreleased' = unreleased + h.leaked
       /\ graph1' = h.rows
       /\ clock' = h.now
       /\ cache' = h.cch
       /\ lastOk' = h.ok
       /\ pc' = [pc EXCEPT ![s] = IF h.stop THEN "done" ELSE "dash"]

\* a student fills the form and presses the submit button
SubmitForm(s) == \E sid \in ViewSids, df \in ViewTables : Submit(s, sid, df)

\* any other interaction of session s (first page load, a toggle, the selectbox)
View(s) ==
  /\ pc[s] = "idle"
  /\ \E pr \in probe_db_status(DB_CONF) :
    /\ RunStart(s, "view", pr)
    /\ outcome' = [outcome EXCEPT ![s] = "none"]
    /\ steps' = [steps EXCEPT ![s] = <<>>]
    /\ conns' = [conns EXCEPT ![s] = 0]
    /\ pc' = [pc EXCEPT ![s] = "dash"]
    /\ UNCHANGED <<graph1, clock, cache, unreleased, nfaults, lastOk>>

\* st_autorefresh(interval=10_000): the dashboard's timer re-runs the script
AutoRefresh(s) ==
  /\ pc[s] = "idle"
  /\ \E pr \in probe_db_status(DB_CONF) :
    /\ RunStart(s, "auto", pr)
    /\ outcome' = [outcome EXCEPT ![s] = "none"]
    /\ steps' = [steps EXCEPT ![s] = <<>>]
    /\ conns' = [conns EXCEPT ![s] = 0]
    /\ pc' = [pc EXCEPT ![s] = "dash"]
    /\ UNCHANGED <<graph1, clock, cache, unreleased, nfaults, lastOk>>

\* st.button(..., on_click=load_all.clear): the callback, then the script run
ManualRefresh(s) ==
  /\ pc[s] = "idle"
  /\ \E pr \in probe_db_status(DB_CONF) :
    /\ RunStart(s, "manual", pr)
    /\ cache' = <<>>
    /\ outcome' = [outcome EXCEPT ![s] = "none"]
    /\ steps' = [steps EXCEPT ![s] = <<>>]
    /\ conns' = [conns EXCEPT ![s] = 0]
    /\ pc' = [pc EXCEPT ![s] = "dash"]
    /\ UNCHANGED <<graph1, clock, unreleased, nfaults, lastOk>>

\* load_all(ACTIVITY_ID) if DB_STATUS.startswith("ONLINE") else ([], None), at
\* position `at` of the script: offline, the literal; on a cache hit, the cached
\* value; on a miss, the function body runs (one run_sql call with faults F) and
\* its value waits in loc to be stored (position `filling`).
LoadAllCall(s, at, filling, after, F) ==
  LET online == startswith_ONLINE(DB_STATUS[s])
      miss == online /\ cache = <<>>
      r == run_sql(DB_CONF, DB_STATUS[s], TRUE, F)
  IN /\ pc[s] = at
     /\ F # {} => miss
     /\ nfaults' = nfaults + Cardinality(F)
     /\ pc' = [pc EXCEPT ![s] = IF miss THEN filling ELSE after]
     /\ data' = [data EXCEPT ![s] = IF ~online THEN <<<<<<>>, None>>>>
                                     ELSE IF miss THEN data[s] ELSE cache]
     /\ loc' = [loc EXCEPT ![s] = IF miss THEN <<load_all_value(r, graph1)>> ELSE <<>>]
     /\ conns' = [conns EXCEPT ![s] = IF miss THEN conns[s] + r.connects ELSE conns[s]]
     /\ unreleased' = IF miss THEN unreleased + r.conn_open - r.conn_closed
                      ELSE unreleased
     /\ UNCHANGED <<DB_CONF, graph1, clock, cache, trigger, DB_STATUS, outcome, steps,
                    probes, nruns, lastOk, arg>>

\* line 198
TabDash(s) ==
  /\ pc[s] = "dash"
  /\ \E F \in FaultChoices(nfaults) : LoadAllCall(s, "dash", "dash_fill", "detail", F)

\* line 222
TabDetail(s) ==
  /\ pc[s] = "detail"
  /\ \E F \in FaultChoices(nfaults) : LoadAllCall(s, "detail", "detail_fill", "done", F)

\* st.cache_data stores the computed value and load_all returns it
LoadAllFill(s) ==
  /\ pc[s] \in {"dash_fill", "detail_fill"}
  /\ cache' = loc[s]
  /\ data' = [data EXCEPT ![s] = loc[s]]
  /\ loc' = [loc EXCEPT ![s] = <<>>]
  /\ pc' = [pc EXCEPT ![s] = IF pc[s] = "dash_fill" THEN "detail" ELSE "done"]
  /\ UNCHANGED <<DB_CONF, graph1, clock, trigger, DB_STATUS, outcome, steps, conns,
                 probes, nruns, unreleased, nfaults, lastOk, arg>>

\* The script run of session s ends (its last line, or st.stop()): the values of
\* the run are gone; the page keeps showing the status line.
RunEnd(s) ==
  /\ pc[s] = "done"
  /\ pc' = [pc EXCEPT ![s] = "idle"]
  /\ outcome' = [outcome EXCEPT ![s] = "none"]
  /\ steps' = [steps EXCEPT ![s] = <<>>]
  /\ conns' = [conns EXCEPT ![s] = 0]
  /\ data' = [data EXCEPT ![s] = <<>>]
  /\ trigger' = [trigger EXCEPT ![s] = "none"]
  /\ UNCHANGED <<DB_CONF, graph1, clock, cache, DB_STATUS, loc, probes, nruns,
                 unreleased, nfaults, lastOk, arg>>

\* @st.cache_data(ttl=5): the entry expires
CacheExpire ==
  /\ cache # <<>>
  /\ cache' = <<>>
  /\ UNCHANGED <<DB_CONF, graph1, clock, pc, trigger, DB_STATUS, outcome, steps, conns,
                 loc, data, probes, nruns, unreleased, nfaults, lastOk, arg>>

Next ==
  \/ \E s \in Sessions : SubmitForm(s)
  \/ \E s \in Sessions : View(s)
  \/ \E s \in Sessions : AutoRefresh(s)
  \/ \E s \in Sessions : ManualRefresh(s)
  \/ \E s \in Sessions : TabDash(s)
  \/ \E s \in Sessions : TabDetail(s)
  \/ \E s \in Sessions : LoadAllFill(s)
  \/ \E s \in Sessions : RunEnd(s)
  \/ CacheExpire

Spec == Init /\ [][Next]_vars

\* ------------------------------------------------ one browser session
\* The same program used from a single browser session: its script runs follow one
\* another, and the cached reads can still expire at any time.
NextSolo ==
  \/ SubmitForm(1)
  \/ View(1)
  \/ AutoRefresh(1)
  \/ ManualRefresh(1)
  \/ TabDash(1)
  \/ TabDetail(1)
  \/ LoadAllFill(1)
  \/ RunEnd(1)
  \/ CacheExpire

SpecSolo == Init /\ [][NextSolo]_vars

\* ------------------------------------------------ the handler on its own
\* The submit handler applied once to every form contents the editor can hold.
\* It starts either from the empty table or from a table that holds an earlier
\* submission of student 10130, read and cached by a viewer.
EarlierRow ==
  [activity_id |-> ACTIVITY_ID, id |-> S10130, submitted_at |-> 1,
   data_json |-> json_dumps(to_dict_records(<<<<<<TimeMin>>, <<TempMax>>>>>>))]

InitSubmit ==
  /\ DB_CONF \in {"conf", None}
  /\ \E pre \in BOOLEAN :
       /\ graph1 = IF pre THEN {EarlierRow} ELSE {}
       /\ clock = IF pre THEN 1 ELSE 0
       /\ cache = IF pre
                 THEN <<load_all_value(run_sql("conf", "ONLINE", TRUE, {}), {EarlierRow})>>
                 ELSE <<>>
       /\ lastOk = [sid \in Sids |->
                     IF pre /\ sid = S10130 THEN <<EarlierRow.data_json>> ELSE <<>>]
  /\ pc = [s \in Sessions |-> "idle"]
  /\ trigger = [s \in Sessions |-> "none"]
  /\ DB_STATUS = [s \in Sessions |-> "unset"]
  /\ outcome = [s \in Sessions |-> "none"]
  /\ steps = [s \in Sessions |-> <<>>]
  /\ conns = [s \in Sessions |-> 0]
  /\ loc = [s \in Sessions |-> <<>>]
  /\ data = [s \in Sessions |-> <<>>]
  /\ probes = 0
  /\ nruns = 0
  /\ unreleased = 0
  /\ nfaults = 0
  /\ arg \in {<<[sid |-> sid, df |-> df]>> : sid \in Sids, df \in Tables}

SubmitArg == arg # <<>> /\ nruns = 0 /\ Submit(1, arg[1].sid, arg[1].df)

NextSubmit == SubmitArg

SpecSubmit == InitSubmit /\ [][NextSubmit]_vars

\* ================================================================ claims
\* What the claims say of a form's contents, stated independently of the handler.
ClaimIdOk(sid) == sid \in [1..IdLen -> Digits]
ClaimMissing(df) == \E i \in 1..Len(df), j \in 1..2 : df[i][j] = Null
ClaimInRange(df) ==
  \A i \in 1..Len(df) : /\ df[i][1] \in Num(TimeMin..TimeMax)
                        /\ df[i][2] \in Num(TempMin..TempMax)
ValidationFailures == {"INVALID_ID", "INCOMPLETE_TABLE", "OUT_OF_RANGE"}
Points(row) == json_loads(row.data_json)
EmptyResult == <<<<<<>>, None>>>>

\* C1: every stored row holds only points with a time in [0,60] and a temperature
\* in [-20,150], none missing, in ascending order of time; and a handler that
\* executed the upsert had passed the three checks on a table with those properties.
C1_StoredValidSorted ==
  /\ \A r \in graph1 :
       /\ \A i \in 1..Len(Points(r)) :
            /\ Points(r)[i].time \in Num(TimeMin..TimeMax)
            /\ Points(r)[i].temp \in Num(TempMin..TempMax)
       /\ \A i \in 1..Len(Points(r)) - 1 : Points(r)[i].time[1] <= Points(r)[i + 1].time[1]
  /\ "upsert" \in Range(steps[1]) =>
       /\ SubSeq(steps[1], 1, 3) = <<"id", "null", "range">>
       /\ ~ClaimMissing(arg[1].df) /\ ClaimInRange(arg[1].df)

\* C1 witness: a table typed in descending order of time was stored
C1_Witness ==
  /\ outcome[1] = "SUCCESS"
  /\ Len(arg[1].df) = 2
  /\ arg[1].df[1][1] = <<TimeMax>> /\ arg[1].df[2][1] = <<TimeMin>>
  /\ \E r \in graph1 : r.id = arg[1].sid /\ Len(Points(r)) = 2 /\ r.submitted_at = clock

\* C2: the checks run in the order id, missing cell, range and stop at the first
\* failure: a bad id gives INVALID_ID whatever the table, else a missing cell gives
\* INCOMPLETE_TABLE whatever the ranges, else a value out of range gives
\* OUT_OF_RANGE; after a rejection nothing else is checked, looked up or written.
C2_ValidationOrder ==
  nruns = 1 =>
    LET a == arg[1] IN
    /\ ~ClaimIdOk(a.sid) => outcome[1] = "INVALID_ID" /\ steps[1] = <<"id">>
    /\ ClaimIdOk(a.sid) /\ ClaimMissing(a.df) =>
         outcome[1] = "INCOMPLETE_TABLE" /\ steps[1] = <<"id", "null">>
    /\ ClaimIdOk(a.sid) /\ ~ClaimMissing(a.df) /\ ~ClaimInRange(a.df) =>
         outcome[1] = "OUT_OF_RANGE" /\ steps[1] = <<"id", "null", "range">>
    /\ outcome[1] \in ValidationFailures =>
         /\ conns[1] = 0 /\ pc[1] = "done"
         /\ clock <= 1 /\ graph1 \in {{}, {EarlierRow}}
         /\ (clock = 1) = (graph1 # {}) /\ (clock = 1) = (cache # <<>>)

\* C2 witness: a table with a missing cell and a time out of range, rejected as incomplete
C2_Witness ==
  /\ nruns = 1 /\ outcome[1] = "INCOMPLETE_TABLE"
  /\ \E i \in 1..Len(arg[1].df) : arg[1].df[i][1] = <<TimeMax + 1>>

\* C3: in a script run whose status is OFFLINE no run_sql connection is opened;
\* run_sql itself returns ([], []) or None without connecting; a submit that passed
\* validation is rejected with the no-database message without lookup or upsert;
\* the dashboard and detail reads yield ([], None).
C3_OfflineNoDb ==
  \A s \in Sessions :
    (DB_STATUS[s] \notin {"ONLINE", "unset"}) =>
      /\ conns[s] = 0 /\ loc[s] = <<>>
      /\ \A fetch \in BOOLEAN, F \in FaultChoices(0) :
           LET r == run_sql(DB_CONF, DB_STATUS[s], fetch, F)
           IN /\ r.connects = 0 /\ r.conn_open = 0 /\ ~r.raised /\ ~r.executed
              /\ r.ret = IF fetch THEN "([], [])" ELSE "None"
      /\ (trigger[s] = "submit" /\ outcome[s] \notin ValidationFailures) =>
           outcome[s] = "NO_DB" /\ steps[s] = <<"id", "null", "range">>
      /\ (pc[s] \in {"detail", "done"} /\ outcome[s] \notin ValidationFailures) =>
           data[s] = EmptyResult
      /\ pc[s] \notin {"dash_fill", "detail_fill"}

\* C3 witness: an offline run rejected a valid submit and rendered both tabs empty
C3_Witness ==
  \E s \in Sessions :
    /\ DB_STATUS[s] = "OFFLINE: error" /\ outcome[s] = "NO_DB"
    /\ pc[s] = "done" /\ data[s] = EmptyResult

C5_UnknownStudent ==
  nruns = 1 =>
    LET a == arg[1]
        before == IF clock = 1 THEN {EarlierRow} ELSE {}
    IN /\ ( /\ DB_STATUS[1] = "ONLINE"
            /\ ClaimIdOk(a.sid) /\ ~ClaimMissing(a.df) /\ ClaimInRange(a.df)
            /\ \A st \in students : st.id # a.sid )
         => outcome[1] \in {"UNKNOWN_STUDENT", "LOOKUP_ERROR"}
       /\ outcome[1] \in {"UNKNOWN_STUDENT", "LOOKUP_ERROR"} =>
            /\ steps[1] = <<"id", "null", "range", "lookup">>
            /\ clock <= 1 /\ graph1 = before
            /\ (cache # <<>>) = (before # {})
            /\ \A sid \in Sids : lastOk[sid] # <<>> => sid = S10130 /\ before # {}
       /\ outcome[1] = "LOOKUP_ERROR" => pc[1] = "done"
       /\ outcome[1] = "UNKNOWN_STUDENT" => \A st \in students : st.id # a.sid

\* C5 witness: student 99999 submitted a valid one-point table while reads were cached
C5_Witness ==
  /\ outcome[1] = "UNKNOWN_STUDENT" /\ arg[1].sid = S99999 /\ Len(arg[1].df) = 1
  /\ cache # <<>> /\ graph1 = {EarlierRow}

\* C6 (as claimed): every load_all call that returns without error after a
\* successful write has completed yields the written payload of that student.
\* Stated for the calls that also begin after the write: those that start and
\* return in one step.
C6_ReadsSeeCompletedWrites ==
  [][\A s \in Sessions :
       ( /\ pc[s] \in {"dash", "detail"}
         /\ pc'[s] # pc[s]
         /\ DB_STATUS[s] = "ONLINE"
         /\ pc'[s] \in {"detail", "done"}
         /\ data'[s][1][2] = None )
       => \A sid \in Sids :
            lastOk[sid] # <<>> =>
              \E i \in 1..Len(data'[s][1][1]) :
                 /\ data'[s][1][1][i].id = sid
                 /\ data'[s][1][1][i].data = DataFrame(json_loads(lastOk[sid][1]))]_vars

\* C7 (as claimed): every connection run_sql opened is closed when it returns or raises.
C7_AllReleased == unreleased = 0

\* C8 (as claimed): every stored submission is a non-empty sequence of points.
C8_StoredNonEmpty == \A r \in graph1 : Len(Points(r)) > 0

\* C9 (as claimed): after the first script run of the process, a run started by a
\* submit, a view or the automatic refresh makes no probe connection and leaves the
\* status as it was.
C9_ProbedOnce ==
  [][\A s \in Sessions :
       (nruns >= 1 /\ pc[s] = "idle" /\ pc'[s] # "idle" /\ trigger'[s] # "manual")
       => /\ probes' = probes
          /\ DB_STATUS[s] # "unset" => DB_STATUS'[s] = DB_STATUS[s]]_vars

\* C10 (as claimed): a user action opens at most one run_sql connection.
C10_OneRoundTrip == \A s \in Sessions : conns[s] <= 1

Count(q, x) == Cardinality({i \in 1..Len(q) : q[i] = x})

\* C10 (amended): every run_sql call connects at most once and nothing is retried:
\* the handler makes at most one lookup and at most one upsert, each load_all call
\* at most one query, so a script run opens at most four run_sql connections after
\* a submit and at most two otherwise (conns does not count the probe of RunStart).
C10_OneConnectionPerCall ==
  \A s \in Sessions :
    LET calls == Count(steps[s], "lookup") + Count(steps[s], "upsert")
        loads == IF pc[s] \in {"idle", "dash"} THEN 0
                 ELSE IF pc[s] \in {"dash_fill", "detail"} THEN 1
                 ELSE IF outcome[s] \in ValidationFailures \cup {"LOOKUP_ERROR"} THEN 0
                 ELSE 2
    IN /\ Count(steps[s], "lookup") <= 1 /\ Count(steps[s], "upsert") <= 1
       /\ conns[s] <= calls + loads
       /\ conns[s] <= 4
       /\ trigger[s] # "submit" => conns[s] <= 2

\* C10 witness: a successful submit whose run then queried for both tabs
C10_Witness == \E s \in Sessions : outcome[s] = "SUCCESS" /\ conns[s] = 4

====
